---- MODULE Spec2Model ----
(***************************************************************************)
(* A model of the serverless DynamoDB fixtures plugin (src/index.js).      *)
(*                                                                         *)
(* The plugin loads the fixtures of the service configuration: every       *)
(* fixture is checked (enable flag, table, sources, stage), every source   *)
(* file of an eligible fixture is read and cut into chunks of at most 25   *)
(* records, and the chunks are written to DynamoDB through a pool of       *)
(* bounded concurrency (tiny-async-pool), every write retrying with a      *)
(* linear backoff while the table answers ResourceNotFoundException.       *)
(*                                                                         *)
(* Execution model: Node's event loop.  loadFixtures runs synchronously    *)
(* (the steps LoadFixture, one per fixture, in list order), its promise    *)
(* jobs run right after it (SettleLoadFixtures), and only then do timers   *)
(* and backend callbacks run, one macrotask at a time (TimerFire,          *)
(* BackendAnswer), each with the promise jobs it causes.  The order in     *)
(* which timers and callbacks of different chunks run is left open: the    *)
(* latency of a backend call is arbitrary.                                 *)
(***************************************************************************)
EXTENDS Integers, Sequences, FiniteSets, TLC

VARIABLES
    launchByCli,    \* this.launchByCli: TRUE for the fixtures:load hook, FALSE after deploy
    stage,          \* the value of provider.getStageSourceValue()
    fixtures,       \* serverless.service.custom.fixtures
    files,          \* the file system: path -> number of records, or NoFile
    mapIdx,         \* fixtures.map: index of the next fixture handed to loadFixture
    outcomes,       \* the promise loadFixture returned, per fixture
    result,         \* what loadFixtures gave back to the framework
    loads,          \* the loadSource calls made so far, in call order
    rnfLeft,        \* how many more ResourceNotFoundException answers the backend gives
    backendErrors,  \* the other error codes the backend may answer with
    call,           \* a direct call of chunk or isEnabled: the arguments
    tmp,            \* chunk: the local copy of arr that the loop consumes
    cache,          \* chunk: the chunks pushed so far
    ret             \* the direct call's position and what it returned or threw

vars == <<launchByCli, stage, fixtures, files, mapIdx, outcomes, result, loads,
          rnfLeft, backendErrors, call, tmp, cache, ret>>

loadVars == <<launchByCli, stage, fixtures, files, mapIdx, outcomes, result, loads,
              rnfLeft, backendErrors>>
callVars == <<call, tmp, cache, ret>>

-----------------------------------------------------------------------------
(* Program constants *)

MAX_MIGRATION_CHUNK == 25
CONCURRENT_WRITES == 5
RetryBudget == 5000
RetryStep == 1000

(* Bounds of the model *)

MaxFixtures == 2        \* fixtures in the configuration
MaxNotFound == 1        \* ResourceNotFoundException answers in a whole run (Spec)
MaxSourceNotFound == 3  \* the same in the dispatch of a single source (SpecSource)
MaxChunks == 3          \* chunks of the source of a single dispatch (SpecSource)
MaxConcurrency == 2     \* largest concurrentWrites override
MaxLen == 4             \* chunk called directly: length of arr
MaxSize == 3            \* chunk called directly: largest chunkSize
MaxCache == 6           \* chunk called directly: chunks pushed before the model stops

-----------------------------------------------------------------------------
(* Values *)

Min(a, b) == IF a < b THEN a ELSE b
Max(a, b) == IF a > b THEN a ELSE b

NoFile == -1

\* JavaScript values of fixtureConfig.enable.  The switch of
\* getEnableConfiguration compares with ===, so the string 'true' is not the
\* boolean true.
EnableValues == {"bool:true", "bool:false", "str:cli", "str:deploy", "undefined",
                 "str:always", "str:true", "null"}

ResourceNotFound == "ResourceNotFoundException"
OtherErrors == {"ValidationException", "ProvisionedThroughputExceededException"}
NoError == "none"

\* The records of a file of n records: opaque, told apart by their position.
Records(n) == [k \in 1..n |-> k]

-----------------------------------------------------------------------------
(* Enablement: getEnableConfiguration and isEnabled *)

getEnableConfigurationUnsetAlways(enable) ==
    CASE enable = "bool:true"   -> [threw |-> FALSE, cli |-> TRUE,  deploy |-> TRUE]
      [] enable = "bool:false"  -> [threw |-> FALSE, cli |-> FALSE, deploy |-> FALSE]
      [] enable = "str:cli"     -> [threw |-> FALSE, cli |-> TRUE,  deploy |-> FALSE]
      [] enable = "str:deploy"  -> [threw |-> FALSE, cli |-> FALSE, deploy |-> TRUE]
      [] enable = "undefined"   -> [threw |-> FALSE, cli |-> TRUE,  deploy |-> TRUE]
      [] OTHER                  -> [threw |-> TRUE,  cli |-> FALSE, deploy |-> FALSE]

\* getEnableConfiguration(enable): the switch; threw = the default branch.
getEnableConfiguration(enable) ==
    CASE enable = "bool:true"   -> [threw |-> FALSE, cli |-> TRUE,  deploy |-> TRUE]
      [] enable = "bool:false"  -> [threw |-> FALSE, cli |-> FALSE, deploy |-> FALSE]
      [] enable = "str:cli"     -> [threw |-> FALSE, cli |-> TRUE,  deploy |-> FALSE]
      [] enable = "str:deploy"  -> [threw |-> FALSE, cli |-> FALSE, deploy |-> TRUE]
      [] enable = "undefined"   -> [threw |-> FALSE, cli |-> TRUE,  deploy |-> FALSE]
      [] OTHER                  -> [threw |-> TRUE,  cli |-> FALSE, deploy |-> FALSE]

UnsupportedEnable == "Unsupported value for variable enable"

\* isEnabled(fixtureConfig) with this.launchByCli = byCli; the exception of
\* getEnableConfiguration passes through it.
isEnabled(enable, byCli) ==
    LET configuration == getEnableConfiguration(enable)
    IN  IF configuration.threw
        THEN [threw |-> TRUE, value |-> FALSE]
        ELSE [threw |-> FALSE,
              value |-> (byCli /\ configuration.cli) \/ (~byCli /\ configuration.deploy)]

-----------------------------------------------------------------------------
(* chunk *)

SpliceOneMore(arr, deleteCount) ==
    LET k == Min(Max(deleteCount + 1, 0), Len(arr))
    IN  [removed |-> SubSeq(arr, 1, k), rest |-> SubSeq(arr, k + 1, Len(arr))]

\* Array.prototype.splice(0, deleteCount): the deleteCount is clamped to
\* 0..length; removed is what splice returns, rest is what stays in the array.
Splice(arr, deleteCount) ==
    LET k == Min(Max(deleteCount, 0), Len(arr))
    IN  [removed |-> SubSeq(arr, 1, k), rest |-> SubSeq(arr, k + 1, Len(arr))]

\* chunk(arr, chunkSize, cache) for a chunkSize > 0: the loop
\* while (tmp.length) cache.push(tmp.splice(0, chunkSize)), run to its end.
RECURSIVE chunk(_, _, _)
chunk(arr, chunkSize, acc) ==
    IF Len(arr) = 0
    THEN acc
    ELSE LET s == Splice(arr, chunkSize)
         IN  chunk(s.rest, chunkSize, Append(acc, s.removed))

\* serverless.utils.readFileSync(path): the parsed records of the file.
readFileSync(fs, path) == Records(fs[path])

fileExistsSyncAlways(fs, path) == TRUE

\* serverless.utils.fileExistsSync(path)
fileExistsSync(fs, path) == fs[path] # NoFile

getSeedChunksOneTooMany(fs, path) ==
    chunk(readFileSync(fs, path), MAX_MIGRATION_CHUNK + 1, <<>>)

\* getSeedChunks(sourceFilePath)
getSeedChunks(fs, path) == chunk(readFileSync(fs, path), MAX_MIGRATION_CHUNK, <<>>)

-----------------------------------------------------------------------------
(* writeSeedBatch: one chunk write *)

\* params of writeSeedBatch: RequestItems[tableName] = one PutRequest per seed.
Params(tableName, seeds) ==
    [table |-> tableName,
     items |-> [k \in 1..Len(seeds) |-> [PutRequest |-> [Item |-> seeds[k]]]]]

\* A chunk the pool has not handed to writeSeedBatch yet.  requests and
\* answers are the history of the write: the calls made and how the backend
\* answered them.
IdleWrite ==
    [phase |-> "idle", interval |-> 0, waits |-> <<>>,
     params |-> [table |-> "", items |-> <<>>], requests |-> <<>>, answers |-> <<>>,
     error |-> NoError]

\* execute(interval): setTimeout(..., interval)
execute(w, interval) ==
    [w EXCEPT !.phase = "timer", !.interval = interval, !.waits = Append(@, interval)]

\* writeSeedBatch(dynamodbWriteFunction, tableName, seeds): builds params and
\* calls execute(0).
writeSeedBatch(tableName, seeds) ==
    execute([IdleWrite EXCEPT !.params = Params(tableName, seeds)], 0)

\* The timer callback: dynamodbWriteFunction(params, callback).
SendRequest(w, fn) ==
    [w EXCEPT !.phase = "call", !.requests = Append(@, [fn |-> fn, params |-> w.params])]

ShouldRetryBelowBudget(code, interval) == code = ResourceNotFound /\ interval < RetryBudget

ShouldRetryForever(code, interval) == code = ResourceNotFound

ShouldRetryAnyError(code, interval) == interval <= RetryBudget

\* The condition under which the callback retries.
ShouldRetry(code, interval) == code = ResourceNotFound /\ interval <= RetryBudget

CallbackSchedulesAfterResolve(w, err) ==
    IF err # NoError
    THEN IF ShouldRetry(err, w.interval)
         THEN execute(w, w.interval + RetryStep)
         ELSE [w EXCEPT !.phase = "rejected", !.error = err]
    ELSE [execute(w, w.interval + RetryStep) EXCEPT !.phase = "resolved"]

CallbackNoBackoff(w, err) ==
    IF err # NoError
    THEN IF ShouldRetry(err, w.interval)
         THEN execute(w, w.interval)
         ELSE [w EXCEPT !.phase = "rejected", !.error = err]
    ELSE [w EXCEPT !.phase = "resolved"]

\* The callback of the backend call: err is NoError or the error's code.
Callback(w, err) ==
    IF err # NoError
    THEN IF ShouldRetry(err, w.interval)
         THEN execute(w, w.interval + RetryStep)
         ELSE [w EXCEPT !.phase = "rejected", !.error = err]
    ELSE [w EXCEPT !.phase = "resolved"]

Settled(w) == w.phase \in {"resolved", "rejected"}
InFlight(w) == w.phase \in {"timer", "call"}

-----------------------------------------------------------------------------
(* asyncPool (tiny-async-pool 1.x) as loadSource uses it *)

\* The entries of the pool's `executing` array: a chunk enters it when its
\* write is started and leaves it when the write resolves.
Executing(l) ==
    Cardinality({k \in 1..Len(l.writes) : l.writes[k].phase \in {"timer", "call", "rejected"}})

AllResolved(l) == \A k \in 1..Len(l.writes) : l.writes[k].phase = "resolved"

\* The loop of asyncPool from its current item on: start the write of the
\* next chunk, and stop (await Promise.race(executing)) once poolLimit
\* writes are executing; after the last chunk, the result is
\* Promise.all of the chunk writes.
RECURSIVE PoolLoop(_)
PoolLoop(l) ==
    IF l.next > Len(l.chunks)
    THEN IF AllResolved(l) THEN [l EXCEPT !.state = "resolved"] ELSE l
    ELSE LET started == [l EXCEPT !.writes[l.next] = writeSeedBatch(l.table, l.chunks[l.next]),
                                  !.next = @ + 1]
         IN  IF Executing(started) >= l.limit THEN started ELSE PoolLoop(started)

PoolResolvedKeepsAdmitting(l, c) == PoolLoop([l EXCEPT !.order = Append(@, c)])

\* A chunk write of the pool resolved: the awaited race resolves and the loop
\* goes on.  Nothing happens once the pool's promise has settled.
PoolResolved(l, c) ==
    LET m == [l EXCEPT !.order = Append(@, c)]
    IN  IF m.state = "pending" THEN PoolLoop(m) ELSE m

PoolRejectedLastWins(l, c) ==
    [l EXCEPT !.order = Append(@, c), !.state = "rejected", !.error = l.writes[c].error]

\* A chunk write of the pool rejected: the awaited race (or Promise.all)
\* rejects with that error; the loop never resumes.
PoolRejected(l, c) ==
    LET m == [l EXCEPT !.order = Append(@, c)]
    IN  IF m.state = "pending"
        THEN [m EXCEPT !.state = "rejected", !.error = l.writes[c].error]
        ELSE m

-----------------------------------------------------------------------------
(* loadSource *)

FileMissing == "doesn't exist"

loadSource(fs, sourceFilePath, tableName, dynamoFunction, concurrentWrites, i) ==
    LET base == [fixture |-> i, path |-> sourceFilePath, table |-> tableName,
                 fn |-> dynamoFunction, limit |-> concurrentWrites,
                 read |-> FALSE, chunks |-> <<>>, writes |-> <<>>, next |-> 1,
                 state |-> "pending", error |-> NoError, order |-> <<>>]
    IN  IF ~fileExistsSync(fs, sourceFilePath)
        THEN [base EXCEPT !.state = "rejected", !.error = FileMissing]
        ELSE LET chunks == getSeedChunks(fs, sourceFilePath)
             IN  PoolLoop([base EXCEPT !.read = TRUE, !.chunks = chunks,
                                       !.writes = [k \in 1..Len(chunks) |-> IdleWrite]])

-----------------------------------------------------------------------------
(* loadFixture *)

TableMissing == "Table name not defined"
SourcesMissing == "Source files not defined for table"

LogDisabled == "Ignoring disabled fixtures"
LogStage == "Ignoring fixtures for stage"
LogLoading == "Loading fixtures for table"

NoOutcome == [state |-> "none", error |-> NoError, log |-> "", promises |-> <<>>]

ConcurrentWritesIgnoresOverride(f) == CONCURRENT_WRITES

\* fixtureConfig.concurrentWrites || CONCURRENT_WRITES (0 stands for unset)
ConcurrentWrites(f) ==
    IF f.concurrentWrites # 0 THEN f.concurrentWrites ELSE CONCURRENT_WRITES

SourceLoadsAllDoc(f, i, fs) ==
    LET ns == Len(f.sources)
        nr == Len(f.rawsources)
    IN  [k \in 1..(ns + nr) |->
            IF k <= ns
            THEN loadSource(fs, f.sources[k], f.table, "doc", ConcurrentWrites(f), i)
            ELSE loadSource(fs, f.rawsources[k - ns], f.table, "doc", ConcurrentWrites(f), i)]

\* The loadSource calls of loadFixture, in call order: sources with the
\* DocumentClient's batchWrite, then rawsources with batchWriteItem.
SourceLoads(f, i, fs) ==
    LET ns == Len(f.sources)
        nr == Len(f.rawsources)
    IN  [k \in 1..(ns + nr) |->
            IF k <= ns
            THEN loadSource(fs, f.sources[k], f.table, "doc", ConcurrentWrites(f), i)
            ELSE loadSource(fs, f.rawsources[k - ns], f.table, "raw", ConcurrentWrites(f), i)]

\* The array `promises` of loadFixture.  Each push adds ONE element, the
\* array that map returned: an element that is no promise.  first is the
\* index in `loads` of the fixture's first loadSource call.
Promises(f, first) ==
    LET ns == Len(f.sources)
        nr == Len(f.rawsources)
    IN  (IF ns > 0
         THEN <<[thenable |-> FALSE, loads |-> [k \in 1..ns |-> first + k - 1]]>>
         ELSE <<>>)
        \o
        (IF nr > 0
         THEN <<[thenable |-> FALSE, loads |-> [k \in 1..nr |-> first + ns + k - 1]]>>
         ELSE <<>>)

\* Promise.all(elements): an element that is no thenable counts as
\* fulfilled; a thenable element (a one-element loads) is followed.
PromiseAll(elements, ls) ==
    LET followed == {k \in 1..Len(elements) : elements[k].thenable}
        st(k) == ls[elements[k].loads[1]].state
    IN  IF \E k \in followed : st(k) = "rejected" THEN "rejected"
        ELSE IF \E k \in followed : st(k) = "pending" THEN "pending"
        ELSE "resolved"

\* loadFixture with the stage looked at before the table.
loadFixtureStageFirst(f, i, byCli, stg, fs, ls) ==
    LET enabled == isEnabled(f.enable, byCli)
        none == [threw |-> FALSE, outcome |-> NoOutcome, loads |-> <<>>]
    IN  IF enabled.threw
        THEN [none EXCEPT !.threw = TRUE]
        ELSE IF ~enabled.value
        THEN [none EXCEPT !.outcome.state = "resolved", !.outcome.log = LogDisabled]
        ELSE IF f.stage # "" /\ f.stage # stg
        THEN [none EXCEPT !.outcome.state = "resolved", !.outcome.log = LogStage]
        ELSE IF f.table = ""
        THEN [none EXCEPT !.outcome.state = "rejected", !.outcome.error = TableMissing]
        ELSE IF Len(f.sources) = 0 /\ Len(f.rawsources) = 0
        THEN [none EXCEPT !.outcome.state = "rejected", !.outcome.error = SourcesMissing]
        ELSE LET new == SourceLoads(f, i, fs)
                 promises == Promises(f, Len(ls) + 1)
             IN  [threw |-> FALSE,
                  outcome |-> [state |-> PromiseAll(promises, ls \o new), error |-> NoError,
                               log |-> LogLoading, promises |-> promises],
                  loads |-> new]

\* loadFixture with the table and the sources looked at before the enable flag.
loadFixtureTableFirst(f, i, byCli, stg, fs, ls) ==
    LET enabled == isEnabled(f.enable, byCli)
        none == [threw |-> FALSE, outcome |-> NoOutcome, loads |-> <<>>]
    IN  IF f.table = ""
        THEN [none EXCEPT !.outcome.state = "rejected", !.outcome.error = TableMissing]
        ELSE IF Len(f.sources) = 0 /\ Len(f.rawsources) = 0
        THEN [none EXCEPT !.outcome.state = "rejected", !.outcome.error = SourcesMissing]
        ELSE IF enabled.threw
        THEN [none EXCEPT !.threw = TRUE]
        ELSE IF ~enabled.value
        THEN [none EXCEPT !.outcome.state = "resolved", !.outcome.log = LogDisabled]
        ELSE IF f.stage # "" /\ f.stage # stg
        THEN [none EXCEPT !.outcome.state = "resolved", !.outcome.log = LogStage]
        ELSE LET new == SourceLoads(f, i, fs)
                 promises == Promises(f, Len(ls) + 1)
             IN  [threw |-> FALSE,
                  outcome |-> [state |-> PromiseAll(promises, ls \o new), error |-> NoError,
                               log |-> LogLoading, promises |-> promises],
                  loads |-> new]

\* loadFixture(fixtureConfig): threw (the exception of isEnabled), or the
\* promise it returns and the loadSource calls it made.
loadFixture(f, i, byCli, stg, fs, ls) ==
    LET enabled == isEnabled(f.enable, byCli)
        none == [threw |-> FALSE, outcome |-> NoOutcome, loads |-> <<>>]
    IN  IF enabled.threw
        THEN [none EXCEPT !.threw = TRUE]
        ELSE IF ~enabled.value
        THEN [none EXCEPT !.outcome.state = "resolved", !.outcome.log = LogDisabled]
        ELSE IF f.table = ""
        THEN [none EXCEPT !.outcome.state = "rejected", !.outcome.error = TableMissing]
        ELSE IF Len(f.sources) = 0 /\ Len(f.rawsources) = 0
        THEN [none EXCEPT !.outcome.state = "rejected", !.outcome.error = SourcesMissing]
        ELSE IF f.stage # "" /\ f.stage # stg
        THEN [none EXCEPT !.outcome.state = "resolved", !.outcome.log = LogStage]
        ELSE LET new == SourceLoads(f, i, fs)
                 promises == Promises(f, Len(ls) + 1)
             IN  [threw |-> FALSE,
                  outcome |-> [state |-> PromiseAll(promises, ls \o new), error |-> NoError,
                               log |-> LogLoading, promises |-> promises],
                  loads |-> new]

-----------------------------------------------------------------------------
(* loadFixtures and the event loop *)

Pending == [state |-> "pending", error |-> NoError]

\* One step of fixtures.map(fixtureConfig => this.loadFixture(fixtureConfig)).
\* An exception of loadFixture leaves map and loadFixtures at once.
LoadFixture ==
    /\ result.state = "pending"
    /\ mapIdx <= Len(fixtures)
    /\ LET r == loadFixture(fixtures[mapIdx], mapIdx, launchByCli, stage, files, loads)
       IN  IF r.threw
           THEN /\ result' = [state |-> "thrown", error |-> UnsupportedEnable]
                /\ UNCHANGED <<mapIdx, outcomes, loads>>
           ELSE /\ outcomes' = [outcomes EXCEPT ![mapIdx] = r.outcome]
                /\ loads' = loads \o r.loads
                /\ mapIdx' = mapIdx + 1
                /\ UNCHANGED result
    /\ UNCHANGED <<launchByCli, stage, fixtures, files, rnfLeft, backendErrors>>
    /\ UNCHANGED callVars

\* Promise.all over the promises of all fixtures (an empty or missing list
\* gives Promise.resolve()): it rejects with the first rejected one.
SettleLoadFixtures ==
    /\ result.state = "pending"
    /\ mapIdx > Len(fixtures)
    /\ \A i \in 1..Len(fixtures) : outcomes[i].state \in {"resolved", "rejected"}
    /\ LET rejected == {i \in 1..Len(fixtures) : outcomes[i].state = "rejected"}
       IN  result' = IF rejected = {}
                     THEN [state |-> "resolved", error |-> NoError]
                     ELSE [state |-> "rejected",
                           error |-> outcomes[CHOOSE i \in rejected :
                                                  \A j \in rejected : i <= j].error]
    /\ UNCHANGED <<launchByCli, stage, fixtures, files, mapIdx, outcomes, loads, rnfLeft,
                   backendErrors>>
    /\ UNCHANGED callVars

\* A timer of execute fires: the backend call of the chunk is made.
TimerFire ==
    /\ result.state # "pending"
    /\ \E l \in 1..Len(loads) : \E c \in 1..Len(loads[l].writes) :
          /\ loads[l].writes[c].phase = "timer"
          /\ loads' = [loads EXCEPT ![l].writes[c] = SendRequest(@, loads[l].fn)]
    /\ UNCHANGED <<launchByCli, stage, fixtures, files, mapIdx, outcomes, result, rnfLeft,
                   backendErrors>>
    /\ UNCHANGED callVars

\* The backend answers a call: the callback runs, and with it the pool's
\* reaction to the write's resolution or rejection.
BackendAnswer ==
    /\ \E l \in 1..Len(loads) : \E c \in 1..Len(loads[l].writes) :
       \E err \in {NoError, ResourceNotFound} \cup backendErrors :
          /\ loads[l].writes[c].phase = "call"
          /\ err = ResourceNotFound => rnfLeft > 0
          /\ rnfLeft' = IF err = ResourceNotFound THEN rnfLeft - 1 ELSE rnfLeft
          /\ LET w == Callback([loads[l].writes[c] EXCEPT !.answers = Append(@, err)], err)
                 m == [loads[l] EXCEPT !.writes[c] = w]
             IN  loads' = [loads EXCEPT ![l] =
                              CASE w.phase = "resolved" -> PoolResolved(m, c)
                                [] w.phase = "rejected" -> PoolRejected(m, c)
                                [] OTHER -> m]
    /\ UNCHANGED <<launchByCli, stage, fixtures, files, mapIdx, outcomes, result, backendErrors>>
    /\ UNCHANGED callVars

-----------------------------------------------------------------------------
(* chunk and isEnabled called directly *)

NoCall == [fn |-> "none", arr |-> <<>>, chunkSize |-> 0, enable |-> "undefined", byCli |-> FALSE]
NotCalled == [state |-> "none", value |-> FALSE]

\* One turn of while (tmp.length) cache.push(tmp.splice(0, chunkSize)).
ChunkStep ==
    /\ call.fn = "chunk"
    /\ ret.state = "running"
    /\ Len(tmp) # 0
    /\ Len(cache) < MaxCache
    /\ LET s == Splice(tmp, call.chunkSize)
       IN  /\ cache' = Append(cache, s.removed)
           /\ tmp' = s.rest
    /\ UNCHANGED <<call, ret>>
    /\ UNCHANGED loadVars

\* The loop ends and chunk returns cache.
ChunkReturn ==
    /\ call.fn = "chunk"
    /\ ret.state = "running"
    /\ Len(tmp) = 0
    /\ ret' = [state |-> "returned", value |-> TRUE]
    /\ UNCHANGED <<call, tmp, cache>>
    /\ UNCHANGED loadVars

\* isEnabled({enable}) with this.launchByCli = byCli.
IsEnabledCall ==
    /\ call.fn = "isEnabled"
    /\ ret.state = "running"
    /\ LET r == isEnabled(call.enable, call.byCli)
       IN  ret' = [state |-> IF r.threw THEN "threw" ELSE "returned", value |-> r.value]
    /\ UNCHANGED <<call, tmp, cache>>
    /\ UNCHANGED loadVars

-----------------------------------------------------------------------------
(* Inputs *)

Paths == {"missing.json", "empty.json", "seed.json", "raw.json"}

\* The file system of a run: seed.json holds seedCount records.
FileSystem(seedCount) ==
    [p \in Paths |-> CASE p = "missing.json" -> NoFile
                       [] p = "empty.json"   -> 0
                       [] p = "seed.json"    -> seedCount
                       [] OTHER              -> 5]

\* The fixture of the specification's scenario: { table: "Users",
\* sources: ["seed.json"], enable: true }.
Base ==
    [enable |-> "bool:true", table |-> "Users", sources |-> <<"seed.json">>,
     rawsources |-> <<>>, stage |-> "", concurrentWrites |-> 0]

\* The fixtures of a whole run: Base, Base changed in one field, and a
\* fixture with a source of each kind.
RunConfigs ==
    {Base,
     [Base EXCEPT !.sources = <<"missing.json">>],
     [Base EXCEPT !.sources = <<>>, !.rawsources = <<"raw.json">>],
     [Base EXCEPT !.sources = <<>>],
     [Base EXCEPT !.table = ""],
     [Base EXCEPT !.enable = "str:always"],
     [Base EXCEPT !.enable = "bool:false"],
     [Base EXCEPT !.stage = "prod"],
     [Base EXCEPT !.concurrentWrites = 1],
     [Base EXCEPT !.sources = <<"missing.json">>, !.rawsources = <<"raw.json">>]}

\* Record counts that give 0..MaxChunks chunks, full and partial.
RecordCounts ==
    {n \in 0..(MaxChunks * MAX_MIGRATION_CHUNK) : n % MAX_MIGRATION_CHUNK \in {0, 5}}

Symbols == {"a", "b"}
Arrays == UNION {[1..n -> Symbols] : n \in 0..MaxLen}

InitLoad ==
    /\ stage = "dev"
    /\ mapIdx = 1
    /\ outcomes = [i \in 1..Len(fixtures) |-> NoOutcome]
    /\ result = Pending
    /\ loads = <<>>
    /\ call = NoCall
    /\ tmp = <<>>
    /\ cache = <<>>
    /\ ret = NotCalled

\* The fixture lists of a whole run: up to MaxFixtures different fixtures.
FixtureLists ==
    {fs \in UNION {[1..n -> RunConfigs] : n \in 0..MaxFixtures} :
        \A i, j \in 1..Len(fs) : fs[i] = fs[j] => i = j}

\* A whole run of loadFixtures.
Init ==
    /\ launchByCli \in BOOLEAN
    /\ fixtures \in FixtureLists
    /\ files = FileSystem(30)
    /\ rnfLeft = MaxNotFound
    /\ backendErrors = {"ValidationException"}
    /\ InitLoad

\* Every fixture configuration over the values that loadFixture tells apart.
FixtureConfigs ==
    [enable : EnableValues,
     table : {"", "Users"},
     sources : {<<>>, <<"seed.json">>, <<"missing.json">>},
     rawsources : {<<>>, <<"raw.json">>, <<"seed.json">>},
     stage : {"", "dev", "prod"},
     concurrentWrites : 0..MaxConcurrency]

\* loadFixtures over a single fixture, of any configuration.
InitFixture ==
    /\ launchByCli \in BOOLEAN
    /\ \E f \in FixtureConfigs : fixtures = <<f>>
    /\ files = FileSystem(30)
    /\ rnfLeft = MaxNotFound
    /\ backendErrors = {"ValidationException"}
    /\ InitLoad

\* The dispatch of one source of one fixture.
InitSource ==
    /\ launchByCli = TRUE
    /\ \E cw \in 0..MaxConcurrency : fixtures = <<[Base EXCEPT !.concurrentWrites = cw]>>
    /\ \E n \in RecordCounts : files = FileSystem(n)
    /\ rnfLeft \in 0..MaxSourceNotFound
    /\ backendErrors = {"ValidationException"}
    /\ InitLoad

\* The dispatch of one source against a backend that fails in several ways.
InitFailures ==
    /\ launchByCli = TRUE
    /\ \E cw \in 0..MaxConcurrency : fixtures = <<[Base EXCEPT !.concurrentWrites = cw]>>
    /\ \E n \in RecordCounts : files = FileSystem(n)
    /\ rnfLeft \in 0..MaxNotFound
    /\ backendErrors = OtherErrors
    /\ InitLoad

\* One chunk write, against any backend.
InitWrite ==
    /\ launchByCli = TRUE
    /\ fixtures \in {<<Base>>, <<[Base EXCEPT !.sources = <<>>, !.rawsources = <<"raw.json">>]>>}
    /\ \E n \in {1, MAX_MIGRATION_CHUNK} : files = FileSystem(n)
    /\ rnfLeft = (RetryBudget \div RetryStep) + 3
    /\ backendErrors = OtherErrors
    /\ InitLoad

\* A direct call of chunk(arr, chunkSize) or of isEnabled.
InitCalls ==
    /\ launchByCli = FALSE
    /\ stage = "dev"
    /\ fixtures = <<>>
    /\ files = FileSystem(0)
    /\ mapIdx = 1
    /\ outcomes = <<>>
    /\ result = Pending
    /\ loads = <<>>
    /\ rnfLeft = 0
    /\ backendErrors = {}
    /\ \/ \E arr \in Arrays, size \in (-1)..MaxSize :
             /\ call = [NoCall EXCEPT !.fn = "chunk", !.arr = arr, !.chunkSize = size]
             /\ tmp = arr
             /\ cache = <<>>
       \/ \E e \in EnableValues, byCli \in BOOLEAN :
             /\ call = [NoCall EXCEPT !.fn = "isEnabled", !.enable = e, !.byCli = byCli]
             /\ tmp = <<>>
             /\ cache = <<>>
    /\ ret = [state |-> "running", value |-> FALSE]

Next == LoadFixture \/ SettleLoadFixtures \/ TimerFire \/ BackendAnswer

NextCalls == ChunkStep \/ ChunkReturn \/ IsEnabledCall

Spec == Init /\ [][Next]_vars
SpecFixture == InitFixture /\ [][Next]_vars
SpecSource == InitSource /\ [][Next]_vars
SpecFailures == InitFailures /\ [][Next]_vars
SpecWrite == InitWrite /\ [][Next]_vars

\* One chunk write when the event loop runs every job it holds: the fixtures
\* are mapped and the result settled, every timer fires and every backend
\* call is answered.
SpecWriteFair ==
    /\ InitWrite
    /\ [][Next]_vars
    /\ WF_vars(LoadFixture)
    /\ WF_vars(SettleLoadFixtures)
    /\ WF_vars(TimerFire)
    /\ WF_vars(BackendAnswer)
SpecCalls == InitCalls /\ [][NextCalls]_vars

-----------------------------------------------------------------------------
(* Properties *)

\* Every chunk write of the run, started or not.
Writes == {loads[l].writes[c] : <<l, c>> \in {<<l, c>> \in (1..Len(loads)) \X (1..MaxChunks + 1) :
                                                c <= Len(loads[l].writes)}}

OnlyNotFound(w) == \A k \in 1..Len(w.answers) : w.answers[k] = ResourceNotFound

\* The waits 0, RetryStep, ..., (n - 1) * RetryStep
LinearWaits(n) == [k \in 1..n |-> (k - 1) * RetryStep]

C2_OtherErrorFailsAtOnce ==
    \A w \in Writes : \A k \in 1..Len(w.answers) :
        w.answers[k] \notin {NoError, ResourceNotFound} =>
            /\ k = Len(w.answers)
            /\ w.phase = "rejected"
            /\ w.error = w.answers[k]
            /\ Len(w.requests) = k

C2_Witness ==
    \E w \in Writes :
        /\ w.phase = "rejected"
        /\ w.error = "ValidationException"
        /\ w.answers = <<ResourceNotFound, ResourceNotFound, "ValidationException">>
        /\ Len(w.requests) = 3

\* The chunk writes of a dispatch that are started and not settled.
Active(l) == {c \in 1..Len(l.writes) : InFlight(l.writes[c])}

Failed(l) == \E c \in 1..Len(l.writes) : l.writes[c].phase = "rejected"

\* The maxConcurrency of a fixture's dispatches: its override, or 5.
MaxConcurrencyOf(f) == IF f.concurrentWrites = 0 THEN 5 ELSE f.concurrentWrites

\* C3: in every state of a dispatch, the chunk writes started and not yet
\* settled (waiting in a backoff delay or for the backend's answer) are at
\* most maxConcurrency.
C3_AtMostMaxConcurrency ==
    \A l \in 1..Len(loads) :
        Cardinality(Active(loads[l])) <= MaxConcurrencyOf(fixtures[loads[l].fixture])

C3_Witness ==
    \E l \in 1..Len(loads) :
        /\ Len(loads[l].chunks) = 3
        /\ MaxConcurrencyOf(fixtures[loads[l].fixture]) = 2
        /\ Cardinality(Active(loads[l])) = 2
        /\ loads[l].writes[3].phase = "idle"
        /\ \E c \in Active(loads[l]) : loads[l].writes[c].interval > 0

\* C4: once a chunk write of a dispatch has been rejected, a chunk that is
\* not started stays not started, and a write in flight is neither reset nor
\* dropped: it goes on from where it is (its timer fires, its answer comes).
C4_NoAdmissionAfterFailure ==
    [][\A l \in 1..Len(loads) :
          Failed(loads[l]) =>
              /\ Len(loads'[l].writes) = Len(loads[l].writes)
              /\ \A c \in 1..Len(loads[l].writes) :
                    LET w == loads[l].writes[c]
                        v == loads'[l].writes[c]
                    IN  /\ w.phase = "idle" => v.phase = "idle"
                        /\ w.phase = "timer" => v = w \/ v.phase = "call"
                        /\ w.phase = "call" => v = w \/ v.phase \in {"timer", "resolved", "rejected"}
                        /\ InFlight(w) => v.waits \in {w.waits, Append(w.waits, w.interval + RetryStep)}]_vars

\* A dispatch of three chunks, two at a time: the first write to settle was
\* rejected, a write in flight then went through a retry and settled after it,
\* and the third chunk was never started.
C4_Witness ==
    \E l \in 1..Len(loads) :
        /\ Len(loads[l].chunks) = 3
        /\ Len(loads[l].order) = 2
        /\ loads[l].writes[loads[l].order[1]].phase = "rejected"
        /\ loads[l].writes[loads[l].order[2]].phase = "resolved"
        /\ Len(loads[l].writes[loads[l].order[2]].requests) = 2
        /\ loads[l].writes[3].phase = "idle"
        /\ loads[l].state = "rejected"

AlwaysSucceeded(l) ==
    \A c \in 1..Len(l.writes) : \A k \in 1..Len(l.writes[c].answers) :
        l.writes[c].answers[k] = NoError

\* ceil(n / d)
CeilDiv(n, d) == (n + d - 1) \div d

\* The put entries of records from..to of a file.
PutEntries(from, to) == [k \in 1..(to - from + 1) |-> [PutRequest |-> [Item |-> from + k - 1]]]

\* C8: while the backend has answered every call with success, the dispatch
\* is not rejected; once no write is in flight it has succeeded, and then
\* each of the ceil(n / 25) chunks of the n records was sent in exactly one
\* call: records 1..25 in the first, 26..50 in the second, and so on.
C8_EachChunkWrittenOnce ==
    \A l \in 1..Len(loads) :
        LET n == files[loads[l].path]
            N == CeilDiv(n, 25)
        IN  (loads[l].read /\ AlwaysSucceeded(loads[l])) =>
                /\ loads[l].state # "rejected"
                /\ Len(loads[l].writes) = N
                /\ \A c \in 1..N : Len(loads[l].writes[c].requests) <= 1
                /\ Active(loads[l]) = {} =>
                      /\ loads[l].state = "resolved"
                      /\ \A c \in 1..N :
                            /\ Len(loads[l].writes[c].requests) = 1
                            /\ loads[l].writes[c].requests[1].params.items
                                  = PutEntries(25 * (c - 1) + 1, Min(25 * c, n))

\* The 30-record source, one write at a time: two calls, of 25 and of 5 records.
C8_Witness ==
    \E l \in 1..Len(loads) :
        /\ files[loads[l].path] = 30
        /\ loads[l].limit = 1
        /\ loads[l].state = "resolved"
        /\ Len(loads[l].writes) = 2
        /\ Len(loads[l].writes[1].requests) = 1
        /\ Len(loads[l].writes[2].requests) = 1
        /\ Len(loads[l].writes[1].requests[1].params.items) = 25
        /\ Len(loads[l].writes[2].requests[1].params.items) = 5

\* A fixture whose configuration is faulty: an unsupported enable value, or,
\* for a fixture enabled in the current mode, no table or no sources.
ConfigError(f) ==
    LET enabled == isEnabled(f.enable, launchByCli)
    IN  \/ enabled.threw
        \/ enabled.value /\ f.table = ""
        \/ enabled.value /\ Len(f.sources) = 0 /\ Len(f.rawsources) = 0

\* A fixture whose sources are to be loaded.
Eligible(f) ==
    LET enabled == isEnabled(f.enable, launchByCli)
    IN  /\ ~ConfigError(f)
        /\ enabled.value
        /\ f.stage = "" \/ f.stage = stage

LoadsOf(i) == {l \in 1..Len(loads) : loads[l].fixture = i}

\* C5: loadFixtures does not report success in a run in which the load of a
\* source has failed (the file does not exist, or a chunk write was rejected).
C5_FailsWhenASourceFails ==
    ~(result.state = "resolved" /\ \E l \in 1..Len(loads) : loads[l].state = "rejected")

\* C6: when loadFixtures has reported its result, no chunk write is in flight.
C6_SettlesAfterAllWrites ==
    result.state \in {"resolved", "rejected"} => \A w \in Writes : ~InFlight(w)

\* C7: when loadFixtures has ended and a fixture of the list has a faulty
\* configuration, the result is a failure, and every other fixture has been
\* evaluated and, if eligible, has had loadSource called for all its sources.
C7_ConfigErrorHaltsOneFixture ==
    (result.state # "pending" /\ \E i \in 1..Len(fixtures) : ConfigError(fixtures[i])) =>
        /\ result.state \in {"rejected", "thrown"}
        /\ \A j \in 1..Len(fixtures) :
              ~ConfigError(fixtures[j]) =>
                  /\ outcomes[j].state # "none"
                  /\ Eligible(fixtures[j]) =>
                        Cardinality(LoadsOf(j))
                            = Len(fixtures[j].sources) + Len(fixtures[j].rawsources)

RECURSIVE Flatten(_)
Flatten(seqs) == IF Len(seqs) = 0 THEN <<>> ELSE Head(seqs) \o Flatten(Tail(seqs))

\* C9: chunk(arr, S) with S > 0 returns ceil(L / S) chunks, none empty, all of
\* S elements but the last, which has L mod S when that is not 0, and the
\* chunks joined in order are arr.
C9_ChunkPartitionsInOrder ==
    (call.fn = "chunk" /\ call.chunkSize > 0 /\ ret.state = "returned") =>
        LET L == Len(call.arr)
            S == call.chunkSize
        IN  /\ Len(cache) = CeilDiv(L, S)
            /\ \A k \in 1..Len(cache) :
                  /\ Len(cache[k]) > 0
                  /\ Len(cache[k]) = IF k = Len(cache) /\ L % S # 0 THEN L % S ELSE S
            /\ Flatten(cache) = call.arr
            /\ L = 0 => cache = <<>>
            /\ cache = chunk(call.arr, S, <<>>)

C9_Witness ==
    /\ call.fn = "chunk"
    /\ call.arr = <<"a", "b", "b", "a">>
    /\ call.chunkSize = 3
    /\ ret.state = "returned"
    /\ cache = <<(<<"a", "b", "b">>), (<<"a">>)>>

C11_MissingSourceFailsBeforeAnyWrite ==
    \A l \in 1..Len(loads) :
        files[loads[l].path] = NoFile =>
            /\ loads[l].state = "rejected"
            /\ loads[l].error = FileMissing
            /\ ~loads[l].read
            /\ loads[l].chunks = <<>>
            /\ loads[l].writes = <<>>

\* A fixture with a missing source and a raw source: the first is rejected
\* with nothing written while the second has been written.
C11_Witness ==
    \E l, m \in 1..Len(loads) :
        /\ loads[l].fixture = loads[m].fixture
        /\ loads[l].path = "missing.json"
        /\ loads[l].state = "rejected"
        /\ loads[l].writes = <<>>
        /\ loads[m].path = "raw.json"
        /\ loads[m].state = "resolved"

Evaluated(i) == mapIdx > i \/ outcomes[i].state # "none"

HasSources(f) == Len(f.sources) > 0 \/ Len(f.rawsources) > 0

\* C12: a fixture that is enabled for the current mode and has no table is
\* rejected with "Table name not defined", whatever its sources and its
\* stage are, and loadSource is called for none of its sources.
C12_MissingTableIsAConfigError ==
    \A i \in 1..Len(fixtures) :
        LET f == fixtures[i]
            enabled == isEnabled(f.enable, launchByCli)
        IN  (Evaluated(i) /\ ~enabled.threw /\ enabled.value /\ f.table = "") =>
                /\ outcomes[i].state = "rejected"
                /\ outcomes[i].error = TableMissing
                /\ LoadsOf(i) = {}

\* A fixture for another stage, with sources and no table, loaded by the cli.
C12_Witness ==
    /\ Len(fixtures) = 1
    /\ launchByCli
    /\ fixtures[1].enable = "undefined"
    /\ fixtures[1].table = ""
    /\ fixtures[1].stage = "prod"
    /\ fixtures[1].sources = <<"seed.json">>
    /\ outcomes[1].state = "rejected"
    /\ outcomes[1].error = TableMissing
    /\ result.state = "rejected"

\* C13: a fixture that is not enabled for the current mode, whatever its
\* table, sources and stage are, and an enabled fixture with a table and
\* sources whose stage is not the current one, are skipped: the fixture's
\* promise is resolved and loadSource is called for none of its sources.
C13_SkippedFixtureWritesNothing ==
    \A i \in 1..Len(fixtures) :
        LET f == fixtures[i]
            enabled == isEnabled(f.enable, launchByCli)
            disabled == ~enabled.threw /\ ~enabled.value
            otherStage == /\ ~enabled.threw /\ enabled.value
                          /\ f.table # "" /\ HasSources(f)
                          /\ f.stage # "" /\ f.stage # stage
        IN  (Evaluated(i) /\ (disabled \/ otherStage)) =>
                /\ outcomes[i].state = "resolved"
                /\ outcomes[i].error = NoError
                /\ outcomes[i].log = IF disabled THEN LogDisabled ELSE LogStage
                /\ LoadsOf(i) = {}
                /\ \A l \in 1..Len(loads) : loads[l].fixture # i

\* enable: 'cli' loaded after a deploy, with no table and no sources.
C13_Witness ==
    /\ Len(fixtures) = 1
    /\ ~launchByCli
    /\ fixtures[1].enable = "str:cli"
    /\ fixtures[1].table = ""
    /\ ~HasSources(fixtures[1])
    /\ outcomes[1].state = "resolved"
    /\ result.state = "resolved"
    /\ loads = <<>>

\* The scenario of C14: a dispatch of three chunks whose second chunk was
\* answered ResourceNotFoundException three times and then success, the
\* other two success.
ThreeNotFoundThenSuccess(l) ==
    /\ Len(l.writes) = 3
    /\ l.writes[1].answers = <<NoError>>
    /\ l.writes[2].answers = <<ResourceNotFound, ResourceNotFound, ResourceNotFound, NoError>>
    /\ l.writes[3].answers = <<NoError>>

\* C14, as stated: in that scenario the dispatch succeeds, chunk 2 was
\* attempted exactly 3 times, chunks 1 and 3 once each.
C14_ThreeAttempts ==
    \A l \in 1..Len(loads) :
        ThreeNotFoundThenSuccess(loads[l]) =>
            /\ loads[l].state = "resolved"
            /\ Len(loads[l].writes[2].requests) = 3
            /\ Len(loads[l].writes[1].requests) = 1
            /\ Len(loads[l].writes[3].requests) = 1

\* C14, amended: in that scenario the dispatch succeeds, chunk 2 was
\* attempted exactly 4 times (three answered ResourceNotFoundException, the
\* fourth success), after waits of 0, 1000, 2000 and 3000 ms, and chunks 1
\* and 3 once each.
C14_FourAttempts ==
    \A l \in 1..Len(loads) :
        ThreeNotFoundThenSuccess(loads[l]) =>
            /\ loads[l].state = "resolved"
            /\ Len(loads[l].writes[2].requests) = 4
            /\ loads[l].writes[2].waits = <<0, 1000, 2000, 3000>>
            /\ loads[l].writes[2].phase = "resolved"
            /\ Len(loads[l].writes[1].requests) = 1
            /\ Len(loads[l].writes[3].requests) = 1

C14_Witness ==
    \E l \in 1..Len(loads) :
        /\ ThreeNotFoundThenSuccess(loads[l])
        /\ loads[l].state = "resolved"
        /\ loads[l].limit = 2
        /\ loads[l].order = <<1, 3, 2>>

RECURSIVE Sum(_)
Sum(seq) == IF Len(seq) = 0 THEN 0 ELSE Head(seq) + Sum(Tail(seq))

\* C15: for every chunk write, the waits scheduled so far add up to at most
\* 5000 ms, and a retry was scheduled only when the waits before it added up
\* to at most 5000 ms.
C15_CumulativeDelayWithinBudget ==
    \A w \in Writes :
        /\ Sum(w.waits) <= RetryBudget
        /\ \A k \in 2..Len(w.waits) : Sum(SubSeq(w.waits, 1, k - 1)) <= RetryBudget

\* C16: chunk called with a chunkSize that is 0 or negative does not return a
\* chunk sequence, whatever arr is.
C16_NonPositiveSizeFails ==
    (call.fn = "chunk" /\ call.chunkSize <= 0) => ret.state # "returned"

\* The place of load l among the loadSource calls of its fixture.
PlaceInFixture(l) == Cardinality({m \in LoadsOf(loads[l].fixture) : m <= l})

\* C17: every backend call carries 1 to 25 put entries, one per record of one
\* chunk, in the chunk's order, under the fixture's table; every call of a
\* chunk is the same request; the calls for a fixture's sources go to the
\* document write function and those for its rawsources to the raw one.
C17_RequestsCarryTheChunk ==
    \A l \in 1..Len(loads) : \A c \in 1..Len(loads[l].writes) :
        \A k \in 1..Len(loads[l].writes[c].requests) :
            LET f == fixtures[loads[l].fixture]
                seeds == loads[l].chunks[c]
                r == loads[l].writes[c].requests[k]
            IN  /\ r.params.table = f.table
                /\ Len(r.params.items) \in 1..25
                /\ Len(r.params.items) = Len(seeds)
                /\ \A j \in 1..Len(seeds) :
                      /\ r.params.items[j] = [PutRequest |-> [Item |-> seeds[j]]]
                      /\ seeds[j] = 25 * (c - 1) + j
                /\ r = loads[l].writes[c].requests[1]
                /\ r.fn = IF PlaceInFixture(l) <= Len(f.sources) THEN "doc" ELSE "raw"

\* The same file as a source and as a raw source of one fixture: its first
\* chunk went to the document function, and its second chunk went twice, as
\* the same request of 5 entries, to the raw function.
C17_Witness ==
    /\ Len(loads) = 2
    /\ loads[1].path = "seed.json"
    /\ loads[2].path = "seed.json"
    /\ Len(loads[1].writes[1].requests) = 1
    /\ loads[1].writes[1].requests[1].fn = "doc"
    /\ Len(loads[1].writes[1].requests[1].params.items) = 25
    /\ Len(loads[2].writes[2].requests) = 2
    /\ loads[2].writes[2].requests[2].fn = "raw"
    /\ Len(loads[2].writes[2].requests[2].params.items) = 5

\* The chunk of a dispatch whose write was rejected first: the first rejected
\* one in the order in which the writes settled.
FirstFailed(l) ==
    l.order[CHOOSE k \in 1..Len(l.order) :
                /\ l.writes[l.order[k]].phase = "rejected"
                /\ \A j \in 1..(k - 1) : l.writes[l.order[j]].phase # "rejected"]

\* C18: a dispatch in which a chunk write was rejected is rejected, and its
\* error is the error of the write that was rejected first in time, whatever
\* the chunk's index is and whatever is rejected later.
C18_FirstFailureIsReported ==
    \A l \in 1..Len(loads) :
        Failed(loads[l]) =>
            /\ loads[l].state = "rejected"
            /\ loads[l].error = loads[l].writes[FirstFailed(loads[l])].error

\* Chunk 2 was rejected first, chunk 1 later with another error: the
\* dispatch reports the error of chunk 2.
C18_Witness ==
    \E l \in 1..Len(loads) :
        /\ Len(loads[l].order) >= 2
        /\ loads[l].order[1] = 2
        /\ loads[l].order[2] = 1
        /\ loads[l].writes[2].phase = "rejected"
        /\ loads[l].writes[1].phase = "rejected"
        /\ loads[l].writes[1].error # loads[l].writes[2].error
        /\ loads[l].error = loads[l].writes[2].error

\* The attempts of a write whose timers' intervals are 0, RetryStep, ... up
\* to the first one past RetryBudget.
MaxAttempts == (RetryBudget \div RetryStep) + 2

\* C19: when every timer fires and every backend call is answered, the chunk
\* write is started and eventually resolves or rejects, whatever the backend
\* answers (resource not found every time included), and it never makes more
\* than MaxAttempts calls.
C19_EveryWriteTerminates ==
    /\ [](\A w \in Writes : Len(w.requests) <= MaxAttempts)
    /\ <>(Writes # {} /\ \A w \in Writes : Settled(w))

\* The backend answered resource not found to every one of MaxAttempts
\* calls, and the write was rejected.
C19_Witness ==
    \E w \in Writes :
        /\ w.phase = "rejected"
        /\ Len(w.answers) = MaxAttempts
        /\ OnlyNotFound(w)
        /\ Len(w.requests) = Len(w.answers)

\* The timers of a write that have not fired, and its calls without answer.
PendingTimers(w) == Len(w.waits) - Len(w.requests)
PendingCalls(w) == Len(w.requests) - Len(w.answers)

\* C20: a chunk write has at most one timer pending and at most one backend
\* call unanswered at any time; once it has resolved or rejected it has
\* neither, and nothing about it changes any more: no timer is scheduled,
\* no call is made, and it does not settle again.
C20_SettlesOnceThenQuiescent ==
    /\ [](\A w \in Writes :
            /\ PendingTimers(w) \in {0, 1}
            /\ PendingCalls(w) \in {0, 1}
            /\ Settled(w) => PendingTimers(w) = 0 /\ PendingCalls(w) = 0)
    /\ [][\A l \in 1..Len(loads) : \A c \in 1..Len(loads[l].writes) :
             Settled(loads[l].writes[c]) => loads'[l].writes[c] = loads[l].writes[c]]_vars

\* The first chunk resolved at its second attempt, and the event loop went
\* on with the second chunk, whose call is unanswered.
C20_Witness ==
    \E l \in 1..Len(loads) :
        /\ Len(loads[l].writes) >= 2
        /\ loads[l].writes[1].phase = "resolved"
        /\ Len(loads[l].writes[1].waits) = 2
        /\ Len(loads[l].writes[1].requests) = 2
        /\ Len(loads[l].writes[1].answers) = 2
        /\ loads[l].writes[2].phase = "call"
        /\ PendingCalls(loads[l].writes[2]) = 1

====
